---- MODULE Spec2Model ----
(***************************************************************************)
(* Model of src/rust/src/merkle_frontier.rs: the Orchard incremental       *)
(* Merkle frontier exposed over the cxx bridge (new_orchard, box_clone,    *)
(* parse_orchard, serialize, serialize_legacy, dynamic_memory_usage, root, *)
(* size, append_bundle, init_wallet, orchard_empty_root).                  *)
(*                                                                         *)
(* The file is a thin wrapper: `Inner<H>` is bridgetree::Frontier of the   *)
(* incrementalmerkletree crate, the codecs are read_frontier_v1 /          *)
(* write_frontier_v1 / CommitmentTree of zcash_primitives, the hash is     *)
(* orchard's MerkleHashOrchard.  Each call the wrapper makes is modelled   *)
(* by an operator carrying the callee's name; the wrapper's own control    *)
(* flow (the loop and early return of append_bundle, the map_or of size,   *)
(* the match of parse, the map_err of serialize) is modelled line by line. *)
(*                                                                         *)
(* Values.  A hash is a finite sequence of integers, the prefix code of a  *)
(* term: <<c>> (c >= 1) is a leaf value, <<-(l+1)>> \o a \o b is           *)
(* combine(l, a, b).  The code is injective, which is how the model        *)
(* states collision resistance.  Option<T> is a sequence of length 0       *)
(* (None) or 1 (Some).                                                     *)
(***************************************************************************)
EXTENDS Integers, Sequences, FiniteSets, TLC

(* MERKLE_DEPTH is 32 in the source; the model runs the same code at a    *)
(* small depth so that a frontier can be filled.                           *)
MERKLE_DEPTH == 2

(* Longest action list of a bundle handed to append_bundle.                *)
MaxActions == 2

(* Largest number of checkpoints of a wallet handed to init_wallet.        *)
MaxCheckpoints == 1

(* The note commitments (cmx) the bundles' actions carry: opaque values.   *)
Cmx == {2, 3}

RECURSIVE Pow2(_)
Pow2(n) == IF n = 0 THEN 1 ELSE 2 * Pow2(n - 1)

(* Bit i of the position p: `p & (1 << i) != 0`.                           *)
Bit(p, i) == (p \div Pow2(i)) % 2 = 1

(* ----------------------------- hashes -------------------------------- *)

(* MerkleHashOrchard::from_cmx: the leaf value of a commitment.            *)
FromCmx(c) == <<c>>

(* Hashable::empty_leaf: the uncommitted leaf, no commitment's value.      *)
EmptyLeaf == <<1>>

(* Hashable::combine(altitude, a, b).                                      *)
Combine(l, a, b) == <<-(l + 1)>> \o a \o b

(* Hashable::empty_root(altitude): empty_leaf combined with itself         *)
(* `altitude` times, level by level.                                       *)
RECURSIVE EmptyRoot(_)
EmptyRoot(l) ==
  IF l = 0 THEN EmptyLeaf
  ELSE Combine(l - 1, EmptyRoot(l - 1), EmptyRoot(l - 1))

(* ---------------------------- positions ------------------------------ *)

(* Position::max_altitude: floor(log2(p)), 0 for p = 0.                    *)
RECURSIVE MaxAltitude(_)
MaxAltitude(p) == IF p <= 1 THEN 0 ELSE 1 + MaxAltitude(p \div 2)

(* Position::ommer_altitudes: the levels i >= 1 with bit i of p set,       *)
(* ascending.                                                              *)
RECURSIVE AltitudesFrom(_, _)
AltitudesFrom(p, i) ==
  IF i > MaxAltitude(p) THEN <<>>
  ELSE (IF Bit(p, i) THEN <<i>> ELSE <<>>) \o AltitudesFrom(p, i + 1)

OmmerAltitudes(p) == AltitudesFrom(p, 1)

(* Mutant of IsComplete: the loop runs one level too far.                  *)
IsCompleteInclusive(p, to) == \A i \in 0 .. to : Bit(p, i)

(* Position::is_complete(to_altitude): bits 0 .. to_altitude-1 all set.    *)
IsComplete(p, to) == \A i \in 0 .. to - 1 : Bit(p, i)

(* ----------------------- bridgetree::Frontier ------------------------ *)

(* A NonEmptyFrontier is [position, leaf, ommers]; leaf is <<a>> for       *)
(* Leaf::Left(a) and <<a, b>> for Leaf::Right(a, b).                       *)
NonEmptyNew(v) == [position |-> 0, leaf |-> <<v>>, ommers |-> <<>>]

(* Mutant of CarryInto: the carried node is dropped.                       *)
CarryIntoDroppingCarry(ommers, lvls, carry, carryLvl) == ommers

(* The carry loop of NonEmptyFrontier::append: the carried node combines   *)
(* with each ommer found at its own level and is inserted at the first     *)
(* level that has none.                                                    *)
RECURSIVE CarryInto(_, _, _, _)
CarryInto(ommers, lvls, carry, carryLvl) ==
  IF ommers = <<>> THEN <<carry>>
  ELSE IF Head(lvls) = carryLvl
       THEN CarryInto(Tail(ommers), Tail(lvls),
                      Combine(carryLvl, Head(ommers), carry), carryLvl + 1)
       ELSE <<carry>> \o ommers

(* NonEmptyFrontier::append.                                               *)
NonEmptyAppend(f, v) ==
  IF Len(f.leaf) = 1
  THEN [position |-> f.position + 1,
        leaf     |-> <<f.leaf[1], v>>,
        ommers   |-> f.ommers]
  ELSE [position |-> f.position + 1,
        leaf     |-> <<v>>,
        ommers   |-> CarryInto(f.ommers, OmmerAltitudes(f.position),
                               Combine(0, f.leaf[1], f.leaf[2]), 1)]

(* Mutant of PadTo: pads with the empty leaf at every level.               *)
RECURSIVE PadToWithLeaves(_, _, _)
PadToWithLeaves(d, from, to) ==
  IF from >= to THEN d
  ELSE PadToWithLeaves(Combine(from, d, EmptyLeaf), from + 1, to)

(* `(from .. to).fold(d, |d, l| combine(l, d, empty_root(l)))`: complete   *)
(* the digest d of level `from` to level `to` against empty subtrees.      *)
RECURSIVE PadTo(_, _, _)
PadTo(d, from, to) ==
  IF from >= to THEN d
  ELSE PadTo(Combine(from, d, EmptyRoot(from)), from + 1, to)

(* The ommer loop of NonEmptyFrontier::inner_root.                         *)
RECURSIVE FoldOmmers(_, _, _, _)
FoldOmmers(digest, completeLvl, ommers, lvls) ==
  IF ommers = <<>> THEN digest
  ELSE FoldOmmers(Combine(Head(lvls), Head(ommers),
                          PadTo(digest, completeLvl, Head(lvls))),
                  Head(lvls) + 1, Tail(ommers), Tail(lvls))

(* NonEmptyFrontier::root.                                                 *)
NonEmptyRoot(f) ==
  FoldOmmers(IF Len(f.leaf) = 1
             THEN Combine(0, f.leaf[1], EmptyLeaf)
             ELSE Combine(0, f.leaf[1], f.leaf[2]),
             1, f.ommers, OmmerAltitudes(f.position))

(* Frontier::empty.                                                        *)
FrontierEmpty == <<>>

(* Frontier::position.                                                     *)
Position(fr) == IF fr = <<>> THEN <<>> ELSE <<fr[1].position>>

(* Mutant of FrontierAppend: a full frontier starts over.                  *)
FrontierAppendWrapping(fr, v) ==
  IF fr # <<>> /\ ~IsComplete(fr[1].position, MERKLE_DEPTH)
  THEN [ok |-> TRUE, fr |-> <<NonEmptyAppend(fr[1], v)>>]
  ELSE [ok |-> TRUE, fr |-> <<NonEmptyNew(v)>>]

(* Frontier::append(&value) -> bool: [ok, fr] is the returned flag and the *)
(* frontier afterwards.                                                    *)
FrontierAppend(fr, v) ==
  IF fr # <<>>
  THEN IF IsComplete(fr[1].position, MERKLE_DEPTH)
       THEN [ok |-> FALSE, fr |-> fr]
       ELSE [ok |-> TRUE, fr |-> <<NonEmptyAppend(fr[1], v)>>]
  ELSE [ok |-> TRUE, fr |-> <<NonEmptyNew(v)>>]

(* Frontier::root.                                                         *)
FrontierRoot(fr) ==
  IF fr = <<>> THEN EmptyRoot(MERKLE_DEPTH)
  ELSE PadTo(NonEmptyRoot(fr[1]), MaxAltitude(fr[1].position) + 1, MERKLE_DEPTH)

(* ------------------------ streams and codecs ------------------------- *)

(* A stream (CppStream over RustStream) is a sequence of cells: a byte, or *)
(* the 32-byte encoding of one node, which is read and written whole.      *)
Byte(b) == [node |-> FALSE, v |-> <<b>>]

(* HashSer::write / MerkleHashOrchard::to_bytes: the 32 bytes of a node.   *)
HashBytes(h) == [node |-> TRUE, v |-> h]

(* 32 bytes that are no canonical encoding of a Pallas base field element. *)
NonCanonical == [node |-> TRUE, v |-> <<0>>]

E_Eof == "failed to fill whole buffer"
E_Option == "non-canonical Option<T>"
E_CompactSize == "non-canonical CompactSize"
E_Hash == "Non-canonical encoding of Pallas base field value."
E_PositionMismatch ==
  "Parsing resulted in an invalid Merkle frontier: PositionMismatch"
E_MaxDepthExceeded ==
  "Parsing resulted in an invalid Merkle frontier: MaxDepthExceeded"
E_WriteZero == "failed to write whole buffer"

ReadOk(val, rest) == [ok |-> TRUE, err |-> "", val |-> val, rest |-> rest]
ReadErr(e) == [ok |-> FALSE, err |-> e, val |-> <<>>, rest |-> <<>>]

(* write_u64::<LittleEndian> (write_usize_leu64): k bytes, low byte first. *)
RECURSIVE LEBytes(_, _)
LEBytes(n, k) ==
  IF k = 0 THEN <<>> ELSE <<Byte(n % 256)>> \o LEBytes(n \div 256, k - 1)

(* read_u64::<LittleEndian> on the bytes read.                             *)
RECURSIVE FromLE(_)
FromLE(bs) == IF bs = <<>> THEN 0 ELSE bs[1].v[1] + 256 * FromLE(Tail(bs))

ReadU8(s) == IF s = <<>> THEN ReadErr(E_Eof) ELSE ReadOk(s[1].v[1], Tail(s))

(* read_position / read_leu64_usize.                                       *)
ReadPosition(s) ==
  IF Len(s) < 8 THEN ReadErr(E_Eof)
  ELSE ReadOk(FromLE(SubSeq(s, 1, 8)), SubSeq(s, 9, Len(s)))

(* HashSer::read for MerkleHashOrchard.                                    *)
ReadHash(s) ==
  IF s = <<>> THEN ReadErr(E_Eof)
  ELSE IF s[1] = NonCanonical THEN ReadErr(E_Hash)
  ELSE ReadOk(s[1].v, Tail(s))

(* Optional::read(reader, H::read).                                        *)
ReadOptionalHash(s) ==
  LET tag == ReadU8(s) IN
  IF ~tag.ok THEN tag
  ELSE IF tag.val = 0 THEN ReadOk(<<>>, tag.rest)
  ELSE IF tag.val = 1
       THEN LET h == ReadHash(tag.rest) IN
            IF h.ok THEN ReadOk(<<h.val>>, h.rest) ELSE h
  ELSE ReadErr(E_Option)

(* CompactSize::write.                                                     *)
WriteCompactSize(n) ==
  IF n < 253 THEN <<Byte(n)>> ELSE <<Byte(253)>> \o LEBytes(n, 2)

(* CompactSize::read.                                                      *)
ReadCompactSize(s) ==
  LET flag == ReadU8(s) IN
  IF ~flag.ok THEN flag
  ELSE IF flag.val < 253 THEN flag
  ELSE IF Len(flag.rest) < 2 THEN ReadErr(E_Eof)
  ELSE LET n == FromLE(SubSeq(flag.rest, 1, 2)) IN
       IF flag.val = 253 /\ n >= 253
       THEN ReadOk(n, SubSeq(flag.rest, 3, Len(flag.rest)))
       ELSE ReadErr(E_CompactSize)

(* The element loop of Vector::read(reader, H::read).                      *)
RECURSIVE ReadHashes(_, _)
ReadHashes(s, n) ==
  IF n = 0 THEN ReadOk(<<>>, s)
  ELSE LET h == ReadHash(s) IN
       IF ~h.ok THEN h
       ELSE LET t == ReadHashes(h.rest, n - 1) IN
            IF t.ok THEN ReadOk(<<h.val>> \o t.val, t.rest) ELSE t

(* Mutant of FromParts: counts bit 0 of the position as an ommer level.    *)
FromPartsCountingBit0(position, leaf, ommers) ==
  IF Len(AltitudesFrom(position, 0)) = Len(ommers)
  THEN ReadOk([position |-> position, leaf |-> leaf, ommers |-> ommers], <<>>)
  ELSE ReadErr(E_PositionMismatch)

(* NonEmptyFrontier::from_parts: as many ommers as the position has        *)
(* ommer altitudes.                                                        *)
FromParts(position, leaf, ommers) ==
  IF Len(OmmerAltitudes(position)) = Len(ommers)
  THEN ReadOk([position |-> position, leaf |-> leaf, ommers |-> ommers], <<>>)
  ELSE ReadErr(E_PositionMismatch)

(* Frontier::try_from(NonEmptyFrontier).                                   *)
FrontierTryFrom(f) ==
  IF MaxAltitude(f.position) <= MERKLE_DEPTH
  THEN ReadOk(<<f>>, <<>>)
  ELSE ReadErr(E_MaxDepthExceeded)

(* read_nonempty_frontier_v1.                                              *)
ReadNonEmptyFrontierV1(s) ==
  LET position == ReadPosition(s) IN
  IF ~position.ok THEN position ELSE
  LET left == ReadHash(position.rest) IN
  IF ~left.ok THEN left ELSE
  LET right == ReadOptionalHash(left.rest) IN
  IF ~right.ok THEN right ELSE
  LET count == ReadCompactSize(right.rest) IN
  IF ~count.ok THEN count ELSE
  LET ommers == ReadHashes(count.rest, count.val) IN
  IF ~ommers.ok THEN ommers
  ELSE FromParts(position.val, <<left.val>> \o right.val, ommers.val)

(* read_frontier_v1: Ok(Frontier) or Err(io::Error).                       *)
ReadFrontierV1(s) ==
  LET tag == ReadU8(s) IN
  IF ~tag.ok THEN tag
  ELSE IF tag.val = 0 THEN ReadOk(FrontierEmpty, <<>>)
  ELSE IF tag.val = 1
       THEN LET f == ReadNonEmptyFrontierV1(tag.rest) IN
            IF f.ok THEN FrontierTryFrom(f.val) ELSE f
  ELSE ReadErr(E_Option)

(* write_nonempty_frontier_v1.                                             *)
WriteNonEmptyFrontierV1(f) ==
  LEBytes(f.position, 8)
    \o <<HashBytes(f.leaf[1])>>
    \o (IF Len(f.leaf) = 2 THEN <<Byte(1), HashBytes(f.leaf[2])>> ELSE <<Byte(0)>>)
    \o WriteCompactSize(Len(f.ommers))
    \o [i \in 1 .. Len(f.ommers) |-> HashBytes(f.ommers[i])]

(* write_frontier_v1: the bytes it hands to the writer.                    *)
WriteFrontierV1(fr) ==
  IF fr = <<>> THEN <<Byte(0)>> ELSE <<Byte(1)>> \o WriteNonEmptyFrontierV1(fr[1])

(* The parents of CommitmentTree::from_frontier: levels i .. DEPTH-1, None *)
(* where bit i of the position is clear, else the next ommer.              *)
RECURSIVE ParentsFrom(_, _, _)
ParentsFrom(upos, ommers, i) ==
  IF i >= MERKLE_DEPTH THEN <<>>
  ELSE IF ~Bit(upos, i) THEN <<<<>>>> \o ParentsFrom(upos, ommers, i + 1)
  ELSE IF ommers = <<>> THEN <<<<>>>> \o ParentsFrom(upos, ommers, i + 1)
  ELSE <<<<Head(ommers)>>>> \o ParentsFrom(upos, Tail(ommers), i + 1)

(* CommitmentTree::from_frontier.                                          *)
FromFrontier(fr) ==
  IF fr = <<>> THEN [left |-> <<>>, right |-> <<>>, parents |-> <<>>]
  ELSE [left    |-> <<fr[1].leaf[1]>>,
        right   |-> IF Len(fr[1].leaf) = 2 THEN <<fr[1].leaf[2]>> ELSE <<>>,
        parents |-> ParentsFrom(fr[1].position, fr[1].ommers, 1)]

(* Optional::write(writer, node, |w, n| n.write(w)).                       *)
WriteOptionalHash(o) ==
  IF o = <<>> THEN <<Byte(0)>> ELSE <<Byte(1), HashBytes(o[1])>>

RECURSIVE WriteOptionals(_)
WriteOptionals(os) ==
  IF os = <<>> THEN <<>> ELSE WriteOptionalHash(Head(os)) \o WriteOptionals(Tail(os))

(* CommitmentTree::write: the bytes it hands to the writer.                *)
CommitmentTreeWrite(t) ==
  WriteOptionalHash(t.left) \o WriteOptionalHash(t.right)
    \o WriteCompactSize(Len(t.parents)) \o WriteOptionals(t.parents)

(* A writer that accepts `cap` more cells: what reaches the stream, and    *)
(* whether write_all succeeded.                                            *)
WriteAll(bytes, cap) ==
  IF Len(bytes) <= cap
  THEN [ok |-> TRUE, err |-> "", written |-> bytes]
  ELSE [ok |-> FALSE, err |-> E_WriteZero, written |-> SubSeq(bytes, 1, cap)]

(* --------------------- crate::wallet collaborator -------------------- *)

(* A wallet's note commitment tree: its number of checkpoints and the      *)
(* frontier that is its bridge state.                                      *)
Wallets ==
  [checkpoints : 0 .. MaxCheckpoints,
   tree : {FrontierEmpty} \cup {<<NonEmptyNew(FromCmx(c))>> : c \in Cmx}]

(* crate::wallet::orchard_wallet_init_from_frontier(wallet, &frontier):    *)
(* installs the frontier as the sole bridge state of a tree that has no    *)
(* checkpoints, and reports false for a tree that has some.                *)
OrchardWalletInitFromFrontier(w, fr) ==
  IF w.checkpoints = 0
  THEN [ok |-> TRUE, wallet |-> [checkpoints |-> 0, tree |-> fr]]
  ELSE [ok |-> FALSE, wallet |-> w]

(* ------------------- merkle_frontier.rs: the wrapper ----------------- *)

(* new_orchard.                                                            *)
new_orchard == FrontierEmpty

(* Mutant of orchard_empty_root: the altitude is one short.                *)
orchard_empty_root_short == HashBytes(EmptyRoot(MERKLE_DEPTH - 1))

(* orchard_empty_root.                                                     *)
orchard_empty_root == HashBytes(EmptyRoot(MERKLE_DEPTH))

(* Mutant of box_clone: boxes a fresh frontier instead of a copy.          *)
box_clone_fresh(fr) == FrontierEmpty

(* MerkleFrontier::box_clone.                                              *)
box_clone(fr) == fr

(* MerkleFrontier::root: the 32 bytes of the frontier's root.              *)
root(fr) == HashBytes(FrontierRoot(fr))

(* Mutant of size: returns the position, not the position plus one.       *)
size_as_position(fr) ==
  LET p == Position(fr) IN IF p = <<>> THEN 0 ELSE p[1]

(* MerkleFrontier::size.                                                   *)
size(fr) ==
  LET p == Position(fr) IN IF p = <<>> THEN 0 ELSE p[1] + 1

(* MerkleFrontier::dynamic_memory_usage, for an ommer vector of the given  *)
(* capacity: size_of_val(&self.0) plus the frontier's heap use.            *)
dynamic_memory_usage(fr, capacity) ==
  104 + (IF fr = <<>> THEN 0 ELSE 104 + capacity * 32)

(* Mutant of parse: the message leaves out the cause.                      *)
parse_dropping_cause(stream) ==
  LET r == ReadFrontierV1(stream) IN
  IF r.ok
  THEN [ok |-> TRUE, err |-> <<>>, boxed |-> <<r.val>>]
  ELSE [ok |-> FALSE, err |-> <<"Failed to parse v5 Merkle frontier">>,
        boxed |-> <<>>]

(* MerkleFrontier::parse / parse_orchard: Ok(Box<Orchard>) or Err(String). *)
parse(stream) ==
  LET r == ReadFrontierV1(stream) IN
  IF r.ok
  THEN [ok |-> TRUE, err |-> <<>>, boxed |-> <<r.val>>]
  ELSE [ok |-> FALSE, err |-> <<"Failed to parse v5 Merkle frontier: ", r.err>>,
        boxed |-> <<>>]

(* MerkleFrontier::serialize into a writer with room for `cap` cells.      *)
serialize(fr, cap) ==
  LET w == WriteAll(WriteFrontierV1(fr), cap) IN
  [ok |-> w.ok,
   err |-> IF w.ok THEN <<>>
           ELSE <<"Failed to serialize v5 Merkle frontier: ", w.err>>,
   written |-> w.written]

(* MerkleFrontier::serialize_legacy into a writer with room for `cap`.     *)
serialize_legacy(fr, cap) ==
  LET commitment_tree == FromFrontier(fr)
      w == WriteAll(CommitmentTreeWrite(commitment_tree), cap) IN
  [ok |-> w.ok,
   err |-> IF w.ok THEN <<>>
           ELSE <<"Failed to serialize Merkle frontier in legacy format: ", w.err>>,
   written |-> w.written]

(* Mutant of AppendActions: the actions are taken last to first.           *)
RECURSIVE AppendActionsReversed(_, _, _)
AppendActionsReversed(fr, actions, n) ==
  IF actions = <<>> THEN [ok |-> TRUE, fr |-> fr, n |-> n]
  ELSE LET r == FrontierAppend(fr, FromCmx(actions[Len(actions)])) IN
       IF ~r.ok THEN [ok |-> FALSE, fr |-> r.fr, n |-> n]
       ELSE AppendActionsReversed(r.fr, SubSeq(actions, 1, Len(actions) - 1), n + 1)

(* Mutant of AppendActions: the result of append is not looked at.         *)
RECURSIVE AppendActionsUnchecked(_, _, _)
AppendActionsUnchecked(fr, actions, n) ==
  IF actions = <<>> THEN [ok |-> TRUE, fr |-> fr, n |-> n]
  ELSE LET r == FrontierAppend(fr, FromCmx(Head(actions))) IN
       AppendActionsUnchecked(r.fr, Tail(actions), IF r.ok THEN n + 1 ELSE n)

(* The loop of Orchard::append_bundle over bundle.actions(): it returns at *)
(* the first append that fails.  n counts the appends that succeeded.      *)
RECURSIVE AppendActions(_, _, _)
AppendActions(fr, actions, n) ==
  IF actions = <<>> THEN [ok |-> TRUE, fr |-> fr, n |-> n]
  ELSE LET r == FrontierAppend(fr, FromCmx(Head(actions))) IN
       IF ~r.ok THEN [ok |-> FALSE, fr |-> r.fr, n |-> n]
       ELSE AppendActions(r.fr, Tail(actions), n + 1)

(* Mutant of append_bundle: a null bundle is an error.                     *)
append_bundle_null_fails(fr, bundle) ==
  IF bundle # <<>> THEN AppendActions(fr, bundle[1], 0)
  ELSE [ok |-> FALSE, fr |-> fr, n |-> 0]

(* Mutant of append_bundle: a bundle that does not fit is refused whole.   *)
append_bundle_atomic(fr, bundle) ==
  IF bundle # <<>>
  THEN IF AppendActions(fr, bundle[1], 0).ok
       THEN AppendActions(fr, bundle[1], 0)
       ELSE [ok |-> FALSE, fr |-> fr, n |-> 0]
  ELSE [ok |-> TRUE, fr |-> fr, n |-> 0]

(* Orchard::append_bundle; bundle is <<>> for a null pointer, else         *)
(* <<actions>>, the commitments of its actions in order.                   *)
append_bundle(fr, bundle) ==
  IF bundle # <<>> THEN AppendActions(fr, bundle[1], 0)
  ELSE [ok |-> TRUE, fr |-> fr, n |-> 0]

(* Mutant of init_wallet: the wallet's answer is dropped.                  *)
init_wallet_unchecked(fr, w) ==
  [ok |-> TRUE, wallet |-> OrchardWalletInitFromFrontier(w, fr).wallet]

(* Orchard::init_wallet.                                                   *)
init_wallet(fr, w) == OrchardWalletInitFromFrontier(w, fr)

(* --------------------------- the program ----------------------------- *)

VARIABLES
  frontier,   \* the Orchard frontier (self.0) the caller holds
  appended,   \* history: the commitments whose append succeeded, in order
  op,         \* the bridge function called last
  pre,        \* self.0 when that call began
  bundle,     \* the bundle handed to append_bundle
  ret,        \* what the call returned: [ok, err, num, bytes]
  stream,     \* the stream handed to serialize / parse_orchard
  origin,     \* how the caller obtained the stream's content
  other,      \* the Box<Orchard> the call returned, if it returned one
  fed,        \* history of `other` while the caller keeps it as a second frontier
  wallet0,    \* the wallet handed to init_wallet, as it was before the call
  wallet      \* that wallet after the call

vars ==
  <<frontier, appended, op, pre, bundle, ret, stream, origin, other, fed,
    wallet0, wallet>>

Ret(ok, err, num, bytes) == [ok |-> ok, err |-> err, num |-> num, bytes |-> bytes]

(* The bundles a caller passes: a null pointer, or up to MaxActions        *)
(* actions.                                                                *)
Bundles ==
  {<<>>} \cup {<<acts>> : acts \in UNION {[1 .. k -> Cmx] : k \in 0 .. MaxActions}}

(* Room of the writers a caller passes: none, a few cells, or enough.      *)
Capacities == {0, 3, 64}

NoStream == /\ stream' = <<>>
            /\ origin' = "none"

NoWallet == /\ wallet0' = <<>>
            /\ wallet' = <<>>

Init ==
  /\ frontier = new_orchard
  /\ appended = <<>>
  /\ op = "new_orchard"
  /\ pre = new_orchard
  /\ bundle = <<>>
  /\ ret = Ret(TRUE, <<>>, 0, <<>>)
  /\ stream = <<>>
  /\ origin = "none"
  /\ other = <<>>
  /\ fed = <<>>
  /\ wallet0 = <<>>
  /\ wallet = <<>>

(* Mutant of ReadOnlyCall: the call takes the frontier out of self.        *)
ReadOnlyCallTaking(name, r) ==
  /\ op' = name
  /\ pre' = frontier
  /\ bundle' = <<>>
  /\ ret' = r
  /\ frontier' = FrontierEmpty
  /\ UNCHANGED <<appended, fed>>

(* A call through `&self`: it reads self and returns r.                    *)
ReadOnlyCall(name, r) ==
  /\ op' = name
  /\ pre' = frontier
  /\ bundle' = <<>>
  /\ ret' = r
  /\ UNCHANGED <<frontier, appended, fed>>

AppendBundle ==
  \E b \in Bundles :
    LET r == append_bundle(frontier, b) IN
    /\ frontier' = r.fr
    /\ appended' = appended \o (IF b = <<>> THEN <<>> ELSE SubSeq(b[1], 1, r.n))
    /\ op' = "append_bundle"
    /\ pre' = frontier
    /\ bundle' = b
    /\ ret' = Ret(r.ok, <<>>, 0, <<>>)
    /\ other' = <<>>
    /\ UNCHANGED fed
    /\ NoStream
    /\ NoWallet

Root ==
  /\ ReadOnlyCall("root", Ret(TRUE, <<>>, 0, <<root(frontier)>>))
  /\ other' = <<>>
  /\ NoStream
  /\ NoWallet

Size ==
  /\ ReadOnlyCall("size", Ret(TRUE, <<>>, size(frontier), <<>>))
  /\ other' = <<>>
  /\ NoStream
  /\ NoWallet

DynamicMemoryUsage ==
  \E spare \in 0 .. 1 :
    LET capacity == IF frontier = <<>> THEN 0 ELSE Len(frontier[1].ommers) + spare IN
    /\ ReadOnlyCall("dynamic_memory_usage",
                    Ret(TRUE, <<>>, dynamic_memory_usage(frontier, capacity), <<>>))
    /\ other' = <<>>
    /\ NoStream
    /\ NoWallet

OrchardEmptyRoot ==
  /\ ReadOnlyCall("orchard_empty_root", Ret(TRUE, <<>>, 0, <<orchard_empty_root>>))
  /\ other' = <<>>
  /\ NoStream
  /\ NoWallet

BoxClone ==
  /\ ReadOnlyCall("box_clone", Ret(TRUE, <<>>, 0, <<>>))
  /\ other' = <<box_clone(frontier)>>
  /\ NoStream
  /\ NoWallet

Serialize ==
  \E cap \in Capacities :
    LET r == serialize(frontier, cap) IN
    /\ ReadOnlyCall("serialize", Ret(r.ok, r.err, 0, <<>>))
    /\ stream' = r.written
    /\ origin' = IF r.ok THEN "serialize" ELSE "short write"
    /\ other' = <<>>
    /\ NoWallet

SerializeLegacy ==
  \E cap \in Capacities :
    LET r == serialize_legacy(frontier, cap) IN
    /\ ReadOnlyCall("serialize_legacy", Ret(r.ok, r.err, 0, <<>>))
    /\ stream' = r.written
    /\ origin' = "legacy"
    /\ other' = <<>>
    /\ NoWallet

InitWallet ==
  \E w \in Wallets :
    LET r == init_wallet(frontier, w) IN
    /\ ReadOnlyCall("init_wallet", Ret(r.ok, <<>>, 0, <<>>))
    /\ wallet0' = <<w>>
    /\ wallet' = <<r.wallet>>
    /\ other' = <<>>
    /\ NoStream

(* The caller's side of a stream between serialize and parse_orchard: the  *)
(* bytes written are handed back as they are, or cut short, or with one    *)
(* field overwritten.  Cell 1 is the leading tag, cells 2..9 the position, *)
(* cell 10 the left leaf, then the right leaf's tag (and leaf), then the   *)
(* ommer count.                                                            *)
CountCell(s) == IF s[11].v[1] = 1 THEN 13 ELSE 12

StreamStep(how, bytes) ==
  /\ op = "serialize"
  /\ origin = "serialize"
  /\ stream' = bytes
  /\ origin' = how
  /\ UNCHANGED <<frontier, appended, op, pre, bundle, ret, other, fed, wallet0, wallet>>

Truncate ==
  /\ origin = "serialize"
  /\ \E n \in 0 .. Len(stream) - 1 :
       StreamStep("truncated", SubSeq(stream, 1, n))

Retag ==
  /\ origin = "serialize"
  /\ StreamStep("tag", [stream EXCEPT ![1] = Byte(2)])

Reposition ==
  /\ origin = "serialize"
  /\ stream[1] = Byte(1)
  /\ \E p \in 0 .. Pow2(MERKLE_DEPTH + 1) :
       /\ p # frontier[1].position
       /\ StreamStep("position",
                     <<stream[1]>> \o LEBytes(p, 8) \o SubSeq(stream, 10, Len(stream)))

Recount ==
  /\ origin = "serialize"
  /\ stream[1] = Byte(1)
  /\ \E c \in 0 .. MERKLE_DEPTH :
       /\ c # stream[CountCell(stream)].v[1]
       /\ StreamStep("count", [stream EXCEPT ![CountCell(stream)] = Byte(c)])

Denormalize ==
  /\ origin = "serialize"
  /\ stream[1] = Byte(1)
  /\ StreamStep("node", [stream EXCEPT ![10] = NonCanonical])

ParseOrchard ==
  /\ origin \notin {"none", "legacy"}
  /\ LET r == parse(stream) IN
     /\ op' = "parse_orchard"
     /\ pre' = frontier
     /\ bundle' = <<>>
     /\ ret' = Ret(r.ok, r.err, 0, <<>>)
     /\ other' = r.boxed
     /\ UNCHANGED <<frontier, appended, stream, origin, fed>>
     /\ NoWallet

Next ==
  \/ AppendBundle
  \/ Root
  \/ Size
  \/ DynamicMemoryUsage
  \/ OrchardEmptyRoot
  \/ BoxClone
  \/ Serialize
  \/ SerializeLegacy
  \/ InitWallet
  \/ Truncate
  \/ Retag
  \/ Reposition
  \/ Recount
  \/ Denormalize
  \/ ParseOrchard

Spec == Init /\ [][Next]_vars

(* ---------------- two frontiers fed the same commitments ------------ *)

(* The caller keeps a second frontier in `other`: a fresh one, a clone of  *)
(* `frontier`, or one re-read from the bytes `other` was serialized to.    *)
(* It feeds `other` the commitments `frontier` received, in bundles of its *)
(* own choice; `fed` is what `other` has received so far.                  *)
PairCall(name, ok) ==
  /\ op' = name
  /\ pre' = frontier
  /\ bundle' = <<>>
  /\ ret' = Ret(ok, <<>>, 0, <<>>)
  /\ NoWallet

PairAppend ==
  \E b \in Bundles :
    LET r == append_bundle(frontier, b) IN
    /\ frontier' = r.fr
    /\ appended' = appended \o (IF b = <<>> THEN <<>> ELSE SubSeq(b[1], 1, r.n))
    /\ PairCall("append_bundle", r.ok)
    /\ UNCHANGED <<other, fed, stream, origin>>

PairNew ==
  /\ other' = <<new_orchard>>
  /\ fed' = <<>>
  /\ PairCall("new_orchard", TRUE)
  /\ NoStream
  /\ UNCHANGED <<frontier, appended>>

PairClone ==
  /\ other' = <<box_clone(frontier)>>
  /\ fed' = appended
  /\ PairCall("box_clone", TRUE)
  /\ NoStream
  /\ UNCHANGED <<frontier, appended>>

PairFollow ==
  /\ other # <<>>
  /\ \E k \in 1 .. MaxActions :
       /\ Len(fed) + k <= Len(appended)
       /\ LET b == <<SubSeq(appended, Len(fed) + 1, Len(fed) + k)>>
              r == append_bundle(other[1], b) IN
          /\ other' = <<r.fr>>
          /\ fed' = fed \o SubSeq(b[1], 1, r.n)
          /\ PairCall("append_bundle", r.ok)
  /\ NoStream
  /\ UNCHANGED <<frontier, appended>>

PairSerialize ==
  /\ other # <<>>
  /\ LET r == serialize(other[1], 64) IN
     /\ stream' = r.written
     /\ origin' = "serialize"
     /\ PairCall("serialize", r.ok)
  /\ UNCHANGED <<frontier, appended, other, fed>>

PairParse ==
  /\ origin = "serialize"
  /\ LET r == parse(stream) IN
     /\ other' = r.boxed
     /\ fed' = IF r.ok THEN fed ELSE <<>>
     /\ PairCall("parse_orchard", r.ok)
  /\ NoStream
  /\ UNCHANGED <<frontier, appended>>

NextPair ==
  \/ PairAppend
  \/ PairNew
  \/ PairClone
  \/ PairFollow
  \/ PairSerialize
  \/ PairParse

SpecPair == Init /\ [][NextPair]_vars

(* ------------------- a frontier and its clone ------------------------ *)

(* The caller clones `frontier` into `other` and then appends to both, in  *)
(* any order.  `frontier` receives the commitment 2 only, so a commitment  *)
(* 3 under it can only have come through the clone.                        *)
OriginalBundles ==
  {<<>>} \cup {<<acts>> : acts \in UNION {[1 .. k -> {2}] : k \in 0 .. MaxActions}}

CloneCall(name, self, b, ok) ==
  /\ op' = name
  /\ pre' = self
  /\ bundle' = b
  /\ ret' = Ret(ok, <<>>, 0, <<>>)
  /\ NoStream
  /\ NoWallet

CloneAppend ==
  \E b \in OriginalBundles :
    LET r == append_bundle(frontier, b) IN
    /\ frontier' = r.fr
    /\ appended' = appended \o (IF b = <<>> THEN <<>> ELSE SubSeq(b[1], 1, r.n))
    /\ CloneCall("append_bundle", frontier, b, r.ok)
    /\ UNCHANGED <<other, fed>>

CloneBox ==
  /\ other' = <<box_clone(frontier)>>
  /\ fed' = appended
  /\ CloneCall("box_clone", frontier, <<>>, TRUE)
  /\ UNCHANGED <<frontier, appended>>

(* Mutant of CloneAppendCopy: the clone shares its tree with the original. *)
CloneAppendAliased ==
  /\ other # <<>>
  /\ \E b \in Bundles :
       LET r == append_bundle(other[1], b) IN
       /\ other' = <<r.fr>>
       /\ frontier' = r.fr
       /\ fed' = fed \o (IF b = <<>> THEN <<>> ELSE SubSeq(b[1], 1, r.n))
       /\ CloneCall("clone.append_bundle", other[1], b, r.ok)
  /\ UNCHANGED appended

(* append_bundle called on the clone (&mut self is the clone's own box).   *)
CloneAppendCopy ==
  /\ other # <<>>
  /\ \E b \in Bundles :
       LET r == append_bundle(other[1], b) IN
       /\ other' = <<r.fr>>
       /\ fed' = fed \o (IF b = <<>> THEN <<>> ELSE SubSeq(b[1], 1, r.n))
       /\ CloneCall("clone.append_bundle", other[1], b, r.ok)
  /\ UNCHANGED <<frontier, appended>>

NextClone ==
  \/ CloneAppend
  \/ CloneBox
  \/ CloneAppendCopy

SpecClone == Init /\ [][NextClone]_vars

(* ----------------------------- properties ---------------------------- *)

Capacity == Pow2(MERKLE_DEPTH)

AppendCall == op = "append_bundle" /\ bundle # <<>>

(* C1 (as claimed). Bundle atomicity: a bundle with more actions than the  *)
(* frontier has room for makes append_bundle return false and leaves       *)
(* size() at its value before the call.                                    *)
C1_BundleAtomicity ==
  (AppendCall /\ Len(bundle[1]) > Capacity - size(pre))
    => (~ret.ok /\ size(frontier) = size(pre))

(* C2. Capacity boundary: appending one commitment fails iff the frontier  *)
(* already holds 2^D leaves; a failed attempt leaves size() and root() as  *)
(* they were, a successful one advances the position by exactly one.       *)
C2_CapacityBoundary ==
  (AppendCall /\ Len(bundle[1]) = 1)
    => /\ ~ret.ok <=> size(pre) = Capacity
       /\ ~ret.ok => (size(frontier) = size(pre) /\ root(frontier) = root(pre))
       /\ ret.ok => /\ Position(frontier) # <<>>
                    /\ Position(frontier)[1] =
                         (IF Position(pre) = <<>> THEN 0 ELSE Position(pre)[1] + 1)
                    /\ size(frontier) = size(pre) + 1

C2_Witness ==
  AppendCall /\ Len(bundle[1]) = 1 /\ ~ret.ok /\ size(pre) = Capacity

(* C3. Size accounting: size() is the number of appends that succeeded,    *)
(* and no step of any execution makes size() smaller.                      *)
C3_SizeAccounting ==
  /\ [](size(frontier) = Len(appended))
  /\ [][size(frontier') >= size(frontier)]_vars

C3_Witness ==
  op = "size" /\ ret.num = Capacity /\ Len(appended) = Capacity

(* The root of the complete depth-D tree over a leaf sequence padded with  *)
(* empty leaves: Subtree(seq, l, i) is the node at level l whose leftmost  *)
(* leaf has index i * 2^l.                                                 *)
RECURSIVE Subtree(_, _, _)
Subtree(seq, l, i) ==
  IF l = 0
  THEN (IF i + 1 <= Len(seq) THEN FromCmx(seq[i + 1]) ELSE EmptyLeaf)
  ELSE Combine(l - 1, Subtree(seq, l - 1, 2 * i), Subtree(seq, l - 1, 2 * i + 1))

FullTreeRoot(seq) == Subtree(seq, MERKLE_DEPTH, 0)

Leaf(i) == FromCmx(appended[i])

RootIsFullTreeRoot == root(frontier) = HashBytes(FullTreeRoot(appended))

FourLeavesDepth2 ==
  (MERKLE_DEPTH = 2 /\ Len(appended) = 4)
    => root(frontier) =
         HashBytes(Combine(1, Combine(0, Leaf(1), Leaf(2)),
                              Combine(0, Leaf(3), Leaf(4))))

(* C4 (as claimed). root() is the root of the full tree over the appended  *)
(* commitments padded with empty leaves; at depth 2 four leaves give       *)
(* combine(combine(c0,c1), combine(c2,c3)) and three leaves give           *)
(* combine(combine(c0,c1), empty_hash(1)).                                 *)
C4_RootAsClaimed ==
  /\ RootIsFullTreeRoot
  /\ FourLeavesDepth2
  /\ (MERKLE_DEPTH = 2 /\ Len(appended) = 3)
       => root(frontier) =
            HashBytes(Combine(1, Combine(0, Leaf(1), Leaf(2)), EmptyRoot(1)))

(* C4 (amended). As claimed, except that at depth 2 three leaves give      *)
(* combine(combine(c0,c1), combine(c2, empty_hash(0))).                    *)
C4_RootCorrectness ==
  /\ RootIsFullTreeRoot
  /\ FourLeavesDepth2
  /\ (MERKLE_DEPTH = 2 /\ Len(appended) = 3)
       => root(frontier) =
            HashBytes(Combine(1, Combine(0, Leaf(1), Leaf(2)),
                                 Combine(0, Leaf(3), EmptyRoot(0))))

C4_Witness ==
  op = "root" /\ Len(appended) = Capacity - 1 /\ ret.bytes = <<root(frontier)>>

(* C5. Round trip: parse_orchard on the bytes F.serialize wrote succeeds   *)
(* and yields a frontier equal to F.                                       *)
C5_RoundTrip ==
  (op = "parse_orchard" /\ origin = "serialize")
    => /\ ret.ok
       /\ other = <<frontier>>
       /\ size(other[1]) = size(frontier)
       /\ root(other[1]) = root(frontier)

C5_Witness ==
  op = "parse_orchard" /\ origin = "serialize" /\ Len(appended) = Capacity

(* empty_hash of the claim: the empty leaf at level 0, and the combination *)
(* of the level below with itself above it.                                *)
RECURSIVE EmptyHash(_)
EmptyHash(i) ==
  IF i = 0 THEN EmptyLeaf
  ELSE LET below == EmptyHash(i - 1) IN Combine(i - 1, below, below)

(* C6. Empty root: orchard_empty_root() is root() of the frontier          *)
(* new_orchard() returns, and both are empty_hash(D).                      *)
C6_EmptyRoot ==
  /\ (op = "orchard_empty_root")
       => /\ ret.bytes = <<root(new_orchard)>>
          /\ ret.bytes = <<HashBytes(EmptyHash(MERKLE_DEPTH))>>
  /\ (op = "root" /\ appended = <<>>)
       => /\ ret.bytes = <<orchard_empty_root>>
          /\ ret.bytes = <<HashBytes(EmptyHash(MERKLE_DEPTH))>>

C6_Witness ==
  op = "root" /\ appended = <<>> /\ frontier = new_orchard

(* C7. Root determinism: two frontiers that received the same sequence of  *)
(* commitments have the same root, however the commitments were grouped    *)
(* into bundles and wherever one of them was cloned or serialized and      *)
(* parsed again.                                                           *)
C7_RootDeterminism ==
  (other # <<>> /\ fed = appended) => root(other[1]) = root(frontier)

C7_Witness ==
  /\ op = "parse_orchard"
  /\ other # <<>>
  /\ fed = appended
  /\ Len(appended) = Capacity

ReadOnlyOps ==
  {"root", "size", "dynamic_memory_usage", "box_clone", "serialize",
   "serialize_legacy", "init_wallet"}

(* C8. Append is the only mutating operation: a call of root, size,        *)
(* dynamic_memory_usage, box_clone, serialize, serialize_legacy or         *)
(* init_wallet, failed or not, leaves position and ommers as they were,    *)
(* and root() is a function of the appends made so far.                    *)
C8_OnlyAppendMutates ==
  /\ [][op' \in ReadOnlyOps => (frontier' = frontier /\ appended' = appended)]_vars
  /\ [](op \in ReadOnlyOps => frontier = pre)
  /\ [](op = "root" => ret.bytes = <<HashBytes(FullTreeRoot(appended))>>)

C8_Witness ==
  op = "serialize_legacy" /\ ~ret.ok /\ frontier = pre /\ Len(appended) = Capacity

DeclaredPosition(s) == FromLE(SubSeq(s, 2, 9))
DeclaredCount(s) == s[CountCell(s)].v[1]
Inconsistent(s) ==
  /\ DeclaredCount(s) <= Len(s) - CountCell(s)
  /\ DeclaredCount(s) # Len(OmmerAltitudes(DeclaredPosition(s)))

(* The errors parse_orchard returns for the streams cut short of what      *)
(* frontier serializes to.                                                 *)
ShortStreamErrors ==
  LET w == WriteFrontierV1(frontier) IN
  {parse(SubSeq(w, 1, n)).err : n \in 0 .. Len(w) - 1}

C11_PositionRange ==
  /\ Position(frontier) = <<>> <=> appended = <<>>
  /\ Position(frontier) # <<>>
       => Position(frontier)[1] \in 0 .. Capacity - 1
  /\ size(frontier) \in 0 .. Capacity
  /\ (AppendCall /\ size(pre) = Capacity) => size(frontier) = Capacity

C11_Witness ==
  /\ AppendCall
  /\ Len(bundle[1]) > 0
  /\ size(pre) = Capacity
  /\ Position(frontier) = <<Capacity - 1>>

(* The siblings a frontier retains, by level: the left leaf of a           *)
(* Leaf::Right at level 0, and the ommers at the ommer altitudes of the    *)
(* position.                                                               *)
RetainedLevels(fr) ==
  IF fr = <<>> THEN {}
  ELSE (IF Len(fr[1].leaf) = 2 THEN {0} ELSE {})
         \cup {OmmerAltitudes(fr[1].position)[k] :
                 k \in 1 .. Len(OmmerAltitudes(fr[1].position))}

RetainedCount(fr) ==
  IF fr = <<>> THEN 0
  ELSE Len(fr[1].ommers) + (IF Len(fr[1].leaf) = 2 THEN 1 ELSE 0)

(* C12 (as claimed). With n appended leaves an ommer is retained at level  *)
(* i iff bit i of n is 1, and never more than D ommers are held.           *)
C12_OmmersByBitsOfSize ==
  /\ \A i \in 0 .. MERKLE_DEPTH :
       i \in RetainedLevels(frontier) <=> Bit(Len(appended), i)
  /\ RetainedCount(frontier) <= MERKLE_DEPTH

(* C12 (amended). With n >= 1 appended leaves and p = n - 1 the position   *)
(* of the last one, a sibling is retained at level i iff bit i of p is 1:  *)
(* at level 0 it is the left leaf kept beside the last leaf, above it the  *)
(* ommers, one per set bit and each the root of the complete subtree to    *)
(* the left of the path to the last leaf; never more than D are held.      *)
C12_OmmersByBitsOfPosition ==
  frontier # <<>> =>
    LET f == frontier[1]
        p == Len(appended) - 1
        lvls == OmmerAltitudes(p)
    IN /\ f.position = p
       /\ Len(f.leaf) = (IF Bit(p, 0) THEN 2 ELSE 1)
       /\ f.leaf[Len(f.leaf)] = FromCmx(appended[p + 1])
       /\ Bit(p, 0) => f.leaf[1] = FromCmx(appended[p])
       /\ Len(f.ommers) = Cardinality({i \in 1 .. MERKLE_DEPTH : Bit(p, i)})
       /\ Len(f.ommers) = Len(lvls)
       /\ \A k \in 1 .. Len(lvls) :
            f.ommers[k] = Subtree(appended, lvls[k], (p \div Pow2(lvls[k])) - 1)
       /\ \A i \in 0 .. MERKLE_DEPTH : i \in RetainedLevels(frontier) <=> Bit(p, i)
       /\ RetainedCount(frontier) <= MERKLE_DEPTH

C12_Witness ==
  /\ op = "append_bundle"
  /\ Len(appended) = Capacity
  /\ RetainedCount(frontier) = MERKLE_DEPTH

IsPrefix(a, b) == Len(a) <= Len(b) /\ SubSeq(b, 1, Len(a)) = a

(* C13. Clone independence: box_clone returns a frontier equal to the      *)
(* original (same size and root) and leaves the original alone; afterwards *)
(* an append to either copy leaves the other's size() and root() as they   *)
(* were.                                                                   *)
C13_CloneIndependence ==
  [][/\ op' = "box_clone"
          => /\ other' = <<frontier>>
             /\ size(other'[1]) = size(frontier)
             /\ root(other'[1]) = root(frontier)
             /\ frontier' = frontier
     /\ (op' = "append_bundle" /\ other # <<>>)
          => /\ other' = other
             /\ size(other'[1]) = size(other[1])
             /\ root(other'[1]) = root(other[1])
     /\ op' = "clone.append_bundle"
          => /\ frontier' = frontier
             /\ size(frontier') = size(frontier)
             /\ root(frontier') = root(frontier)]_vars

C13_Witness ==
  /\ op = "clone.append_bundle"
  /\ ret.ok
  /\ bundle # <<>>
  /\ other # <<>>
  /\ ~IsPrefix(fed, appended)
  /\ ~IsPrefix(appended, fed)
  /\ root(other[1]) # root(frontier)

(* C14. Null bundle: append_bundle with a null bundle pointer returns true *)
(* and leaves the frontier unchanged, in every state, a full one included. *)
C14_NullBundle ==
  (op = "append_bundle" /\ bundle = <<>>)
    => /\ ret.ok
       /\ frontier = pre
       /\ size(frontier) = size(pre)
       /\ root(frontier) = root(pre)

C14_Witness ==
  /\ op = "append_bundle"
  /\ bundle = <<>>
  /\ ret.ok
  /\ size(pre) = Capacity

(* The frontier after appending the commitments of seq one by one.         *)
RECURSIVE AppendEach(_, _)
AppendEach(fr, seq) ==
  IF seq = <<>> THEN fr
  ELSE AppendEach(FrontierAppend(fr, FromCmx(Head(seq))).fr, Tail(seq))

(* C15. For a frontier of size s and a bundle of k actions append_bundle   *)
(* returns true iff s + k <= 2^D; when it does, the frontier is the one    *)
(* got by appending the k commitments one by one in order: size() is       *)
(* s + k and root() is the root of the old sequence followed by them.      *)
C15_SuccessfulAppend ==
  AppendCall =>
    LET acts == bundle[1]
        s == size(pre)
        k == Len(acts)
    IN /\ ret.ok <=> s + k <= Capacity
       /\ ret.ok
            => /\ frontier = AppendEach(pre, acts)
               /\ size(frontier) = s + k
               /\ Len(appended) = s + k
               /\ SubSeq(appended, s + 1, s + k) = acts
               /\ root(pre) = HashBytes(FullTreeRoot(SubSeq(appended, 1, s)))
               /\ root(frontier) = HashBytes(FullTreeRoot(SubSeq(appended, 1, s) \o acts))

C15_Witness ==
  /\ AppendCall
  /\ ret.ok
  /\ size(pre) > 0
  /\ Len(bundle[1]) = MaxActions
  /\ bundle[1][1] # bundle[1][MaxActions]
  /\ size(frontier) = size(pre) + MaxActions

(* The predecessor fixed-depth commitment tree (left / right / parents),   *)
(* built by appending directly: the reference the legacy form is compared  *)
(* with.  parents[i] is the node of level i, absent while that level       *)
(* holds no completed left subtree, and the vector grows as levels fill.   *)
LegacyEmpty == [left |-> <<>>, right |-> <<>>, parents |-> <<>>]

LegacyIsComplete(t) ==
  /\ t.left # <<>>
  /\ t.right # <<>>
  /\ Len(t.parents) = MERKLE_DEPTH - 1
  /\ \A i \in 1 .. Len(t.parents) : t.parents[i] # <<>>

RECURSIVE LegacyCarry(_, _, _)
LegacyCarry(parents, combined, i) ==
  IF i > MERKLE_DEPTH THEN parents
  ELSE IF i <= Len(parents)
       THEN IF parents[i] # <<>>
            THEN LegacyCarry([parents EXCEPT ![i] = <<>>],
                             Combine(i, parents[i][1], combined), i + 1)
            ELSE [parents EXCEPT ![i] = <<combined>>]
       ELSE Append(parents, <<combined>>)

LegacyAppend(t, node) ==
  IF LegacyIsComplete(t) THEN t
  ELSE IF t.left = <<>> THEN [t EXCEPT !.left = <<node>>]
  ELSE IF t.right = <<>> THEN [t EXCEPT !.right = <<node>>]
  ELSE [left    |-> <<node>>,
        right   |-> <<>>,
        parents |-> LegacyCarry(t.parents, Combine(0, t.left[1], t.right[1]), 1)]

RECURSIVE LegacyAppendEach(_, _)
LegacyAppendEach(t, seq) ==
  IF seq = <<>> THEN t
  ELSE LegacyAppendEach(LegacyAppend(t, FromCmx(Head(seq))), Tail(seq))

RECURSIVE LegacyParentsSize(_, _)
LegacyParentsSize(parents, i) ==
  IF i > Len(parents) THEN 0
  ELSE (IF parents[i] # <<>> THEN Pow2(i) ELSE 0) + LegacyParentsSize(parents, i + 1)

LegacySize(t) ==
  (IF t.left = <<>> THEN 0 ELSE IF t.right = <<>> THEN 1 ELSE 2)
    + LegacyParentsSize(t.parents, 1)

RECURSIVE LegacyFoldParents(_, _, _)
LegacyFoldParents(digest, parents, i) ==
  IF i > Len(parents) THEN digest
  ELSE LegacyFoldParents(IF parents[i] # <<>>
                         THEN Combine(i, parents[i][1], digest)
                         ELSE Combine(i, digest, EmptyRoot(i)),
                         parents, i + 1)

LegacyRoot(t) ==
  PadTo(LegacyFoldParents(Combine(0,
                                  IF t.left = <<>> THEN EmptyLeaf ELSE t.left[1],
                                  IF t.right = <<>> THEN EmptyLeaf ELSE t.right[1]),
                          t.parents, 1),
        Len(t.parents) + 1, MERKLE_DEPTH)

(* C16. For a frontier built from a sequence of commitments, the legacy    *)
(* tree serialize_legacy derives from it is the same state as the legacy   *)
(* tree got by appending that sequence directly, so the bytes written are  *)
(* those of that tree, and it has the leaf count and root of the frontier. *)
C16_LegacySameTree ==
  (op = "serialize_legacy" /\ ret.ok)
    => /\ FromFrontier(frontier) = LegacyAppendEach(LegacyEmpty, appended)
       /\ stream = CommitmentTreeWrite(LegacyAppendEach(LegacyEmpty, appended))
       /\ LegacySize(FromFrontier(frontier)) = size(frontier)
       /\ LegacyRoot(FromFrontier(frontier)) = FrontierRoot(frontier)

(* What the derived legacy tree does share with the directly built one:    *)
(* left, right, the parents up to absent entries at the end, the leaf      *)
(* count and the root.                                                     *)
LegacyAgreesUpToPadding ==
  LET t == FromFrontier(frontier)
      u == LegacyAppendEach(LegacyEmpty, appended)
  IN /\ t.left = u.left
     /\ t.right = u.right
     /\ Len(u.parents) <= Len(t.parents)
     /\ SubSeq(t.parents, 1, Len(u.parents)) = u.parents
     /\ \A i \in Len(u.parents) + 1 .. Len(t.parents) : t.parents[i] = <<>>
     /\ LegacySize(t) = size(frontier)
     /\ LegacySize(u) = size(frontier)
     /\ LegacyRoot(t) = FrontierRoot(frontier)
     /\ LegacyRoot(u) = FrontierRoot(frontier)

(* C17. Fullness is absorbing: once the frontier holds 2^D leaves, every   *)
(* later append_bundle with a non-empty bundle returns false, and size()   *)
(* and root() stay as they are in every step that follows.                 *)
C17_FullIsAbsorbing ==
  [][size(frontier) = Capacity
       => /\ frontier' = frontier
          /\ size(frontier') = Capacity
          /\ root(frontier') = root(frontier)
          /\ (op' = "append_bundle" /\ bundle' # <<>> /\ Len(bundle'[1]) > 0)
               => ~ret'.ok]_vars

C17_Witness ==
  /\ AppendCall
  /\ Len(bundle[1]) > 0
  /\ ~ret.ok
  /\ pre = frontier
  /\ size(frontier) = Capacity
  /\ root(frontier) = HashBytes(FullTreeRoot(appended))

(* C18. Whenever append_bundle returns false the frontier is full          *)
(* afterwards: it stopped at the first action whose append failed, having  *)
(* appended exactly the first 2^D - s actions of the bundle in order,      *)
(* where s is the size before the call, and none after them.               *)
C18_StateAfterFailure ==
  (AppendCall /\ ~ret.ok)
    => LET acts == bundle[1]
           s == size(pre)
       IN /\ size(frontier) = Capacity
          /\ Len(acts) > Capacity - s
          /\ frontier = AppendEach(pre, SubSeq(acts, 1, Capacity - s))
          /\ Len(appended) = Capacity
          /\ SubSeq(appended, s + 1, Capacity) = SubSeq(acts, 1, Capacity - s)
          /\ root(frontier) = HashBytes(FullTreeRoot(appended))

C18_Witness ==
  /\ AppendCall
  /\ ~ret.ok
  /\ size(pre) = Capacity - 1
  /\ Len(bundle[1]) = MaxActions
  /\ size(frontier) = Capacity
  /\ appended[Capacity] = bundle[1][1]

====
